---- MODULE Spec2Model ----
(***************************************************************************)
(* Model of src/tools/fpgajtag/boundary_scan.c: the XDC and BSDL parsers,  *)
(* the bit resolver and the monitor loop of xilinx_boundaryscan().         *)
(*                                                                         *)
(* C strings are sequences of one-character strings; a char* is NULL       *)
(* (the empty tuple) or Ptr(s) (a one-element tuple holding the string).   *)
(* A text line of a descriptor file is represented by what the sscanf /    *)
(* strstr calls of the parser extract from it.                             *)
(***************************************************************************)
EXTENDS Integers, Sequences, FiniteSets

VARIABLES
  pc,                   \* position of the single thread of control
  xdc, bsdl,            \* arguments: was the file name supplied (non-NULL)?
  sensitivity,          \* argument: NULL or Ptr(string)
  pin_names,            \* global pin_names[0..pin_count-1]
  signal_names,         \* global signal_names[0..pin_count-1]
  boundary_bit_type,    \* global, index 0..MAX_BOUNDARY_BITS-1, NULL or Ptr
  boundary_bit_fullname,
  boundary_bit_pin,
  boundary_bit_count,   \* global, set by the BSDL header statement
  part_name,            \* global, set by the BSDL header statement
  line,                 \* the parser's line buffer (what was last read)
  file_pos,             \* lines consumed from the file currently open
  bbit_names,           \* locals of xilinx_boundaryscan, index 0..count-1
  bbit_ignore,
  bbit_show,
  last_rdata,           \* local snapshot of the previous capture
  first_time,           \* local flag
  rdata,                \* the capture returned by write_pattern()
  prev_rdata,           \* history: the snapshot the latest iteration was
                        \* entitled to compare with (the capture before it,
                        \* or the indeterminate initial buffer content)
  iter,                 \* history: completed iterations, saturating at 2
  out_lines,            \* console: per-bit lines of the latest iteration
  out_header,           \* console: "T+...ms >>> Signal(s) changed." printed
  out_dump              \* console: dump_bytes() called in latest iteration

vars == <<pc, xdc, bsdl, sensitivity, pin_names, signal_names,
          boundary_bit_type, boundary_bit_fullname, boundary_bit_pin,
          boundary_bit_count, part_name, line, file_pos,
          bbit_names, bbit_ignore, bbit_show, last_rdata, first_time,
          rdata, prev_rdata, iter, out_lines, out_header, out_dump>>

(***************************************************************************)
(* Bounds.  MAX_BOUNDARY_BITS is 8192 in the source (line 25) and          *)
(* last_rdata holds 1024 bytes = 8192 bits (line 135); the model keeps the *)
(* relation "the snapshot covers every index below MAX_BOUNDARY_BITS" and  *)
(* scales the capacity down so that every index can be enumerated.         *)
(***************************************************************************)
MAX_BOUNDARY_BITS == 2

MaxXdcLines == 2

MaxBsdlLines == 3

\* bytes of a snapshot: enough to hold MAX_BOUNDARY_BITS bits
SnapshotBytes == (MAX_BOUNDARY_BITS + 7) \div 8

(***************************************************************************)
(* C strings and pointers                                                  *)
(***************************************************************************)
NULL == <<>>

Ptr(s) == <<s>>

Deref(p) == p[1]

STR_UNKNOWN == <<"<","u","n","k","n","o","w","n",">">>

STR_CLK_IN == <<"C","L","K","_","I","N">>

STR_INPUT == <<"i","n","p","u","t">>

STR_OUTPUT3 == <<"o","u","t","p","u","t","3">>

STR_U1_DATA_PIN_A3 == <<"U","1","_","D","A","T","A","_","P","I","N","_","A","3">>

STR_RESETN == <<"R","E","S","E","T","N">>

STR_A3 == <<"A","3">>

STR_sys_clk == <<"s","y","s","_","c","l","k">>

STR_DATA_BUS_3 == <<"D","A","T","A","_","B","U","S","[","3","]">>

STR_CLK == <<"C","L","K">>

STR_clk_in_sys_clk == <<"c","l","k","_","i","n",",","s","y","s","_","c","l","k">>

STR_PART == <<"x","c","7">>

UpperChars == <<"A","B","C","D","E","F","G","H","I","J","K","L","M",
                "N","O","P","Q","R","S","T","U","V","W","X","Y","Z">>

LowerChars == <<"a","b","c","d","e","f","g","h","i","j","k","l","m",
                "n","o","p","q","r","s","t","u","v","w","x","y","z">>

\* the lower-case letter of every upper-case letter
LowerOf ==
  [c \in {UpperChars[k] : k \in 1..Len(UpperChars)} |->
     LowerChars[CHOOSE k \in 1..Len(UpperChars) : UpperChars[k] = c]]

\* tolower(3) in the C locale
ToLower(c) == IF c \in DOMAIN LowerOf THEN LowerOf[c] ELSE c

\* variant: the two arguments of strcasestr exchanged
StrCaseStr_Swapped(haystack, needle) ==
  \E off \in 0..(Len(needle) - Len(haystack)) :
    \A k \in 1..Len(haystack) :
      ToLower(needle[off + k]) = ToLower(haystack[k])

\* strcasestr(haystack, needle) != NULL
StrCaseStr(haystack, needle) ==
  \E off \in 0..(Len(haystack) - Len(needle)) :
    \A k \in 1..Len(needle) :
      ToLower(haystack[off + k]) = ToLower(needle[k])

(***************************************************************************)
(* Inputs the environment may supply                                       *)
(***************************************************************************)
\* (name, type) fields of the bit-definition records a layout file may hold
BitFieldInputs == {<<STR_U1_DATA_PIN_A3, STR_INPUT>>,
                   <<STR_RESETN, STR_INPUT>>,
                   <<STR_RESETN, STR_OUTPUT3>>}

SensitivityInputs == {NULL, Ptr(STR_CLK), Ptr(STR_clk_in_sys_clk)}

BitNumberInputs == (-1)..MAX_BOUNDARY_BITS

CountInputs == 1..(MAX_BOUNDARY_BITS + 1)

\* sample bytes of a capture: all bits clear, all set, only bit 0, all but bit 0
ByteInputs == {0, 1, 254, 255}

Snapshots == [1..SnapshotBytes -> ByteInputs]

\* what the two sscanf calls of parse_bsdl extract from one line
NoLine == [kind |-> "eof", count |-> 0, bit_number |-> 0,
           bit_name |-> <<>>, bit_type |-> <<>>]

OtherLine == [NoLine EXCEPT !.kind = "other"]

HeaderLine(c) == [NoLine EXCEPT !.kind = "header", !.count = c]

BitLine(k, n, t) ==
  [NoLine EXCEPT !.kind = "bit", !.bit_number = k, !.bit_name = n, !.bit_type = t]

BsdlLineInputs ==
  {OtherLine}
  \cup {HeaderLine(c) : c \in CountInputs}
  \cup {BitLine(k, f[1], f[2]) : k \in BitNumberInputs, f \in BitFieldInputs}

\* what the strstr scans of parse_xdc extract from one line
XdcLine(found, p, s) == [found |-> found, pin_name |-> p, signal_name |-> s]

XdcLineInputs ==
  {XdcLine(FALSE, <<>>, <<>>),
   XdcLine(TRUE, STR_A3, STR_CLK_IN),
   XdcLine(TRUE, STR_A3, STR_DATA_BUS_3),
   XdcLine(TRUE, STR_RESETN, STR_sys_clk)}

NullTable == [i \in 0..(MAX_BOUNDARY_BITS - 1) |-> NULL]

ZeroSnapshot == [b \in 1..SnapshotBytes |-> 0]

\* content of a buffer that was declared and never written
Indeterminate == <<>>

(***************************************************************************)
(* Initial state: entry of xilinx_boundaryscan() with zeroed globals       *)
(***************************************************************************)
Init ==
  /\ pc = "parse_xdc"
  /\ xdc \in BOOLEAN
  /\ bsdl \in BOOLEAN
  /\ sensitivity \in SensitivityInputs
  /\ pin_names = <<>>
  /\ signal_names = <<>>
  /\ boundary_bit_type = NullTable
  /\ boundary_bit_fullname = NullTable
  /\ boundary_bit_pin = NullTable
  /\ boundary_bit_count = 0
  /\ part_name = <<>>
  /\ line = NoLine
  /\ file_pos = 0
  /\ bbit_names = <<>>
  /\ bbit_ignore = <<>>
  /\ bbit_show = <<>>
  /\ last_rdata = Indeterminate     \* char last_rdata[1024]; never written
  /\ first_time = TRUE
  /\ rdata = ZeroSnapshot
  /\ prev_rdata = ZeroSnapshot
  /\ iter = 0
  /\ out_lines = <<>>
  /\ out_header = FALSE
  /\ out_dump = FALSE

(***************************************************************************)
(* parse_xdc(): one loop iteration per line of the file                    *)
(***************************************************************************)
ParseXdcLine(l) ==
  /\ pc = "parse_xdc"
  /\ xdc
  /\ file_pos < MaxXdcLines
  /\ file_pos' = file_pos + 1
  /\ IF l.found
     THEN /\ pin_names' = Append(pin_names, l.pin_name)
          /\ signal_names' = Append(signal_names, l.signal_name)
     ELSE UNCHANGED <<pin_names, signal_names>>
  /\ UNCHANGED <<pc, xdc, bsdl, sensitivity, boundary_bit_type,
                 boundary_bit_fullname, boundary_bit_pin, boundary_bit_count,
                 part_name, line, bbit_names, bbit_ignore, bbit_show,
                 last_rdata, first_time, rdata, prev_rdata, iter,
                 out_lines, out_header, out_dump>>

\* end of file: the loop ends, fclose(), return to xilinx_boundaryscan
ParseXdcEof ==
  /\ pc = "parse_xdc"
  /\ xdc
  /\ pc' = "clear_tables"
  /\ file_pos' = 0
  /\ UNCHANGED <<xdc, bsdl, sensitivity, pin_names, signal_names,
                 boundary_bit_type, boundary_bit_fullname, boundary_bit_pin,
                 boundary_bit_count, part_name, line, bbit_names, bbit_ignore,
                 bbit_show, last_rdata, first_time, rdata, prev_rdata, iter,
                 out_lines, out_header, out_dump>>

\* xdc == NULL: only a warning is printed
NoXdc ==
  /\ pc = "parse_xdc"
  /\ ~xdc
  /\ pc' = "clear_tables"
  /\ UNCHANGED <<xdc, bsdl, sensitivity, pin_names, signal_names,
                 boundary_bit_type, boundary_bit_fullname, boundary_bit_pin,
                 boundary_bit_count, part_name, line, file_pos, bbit_names,
                 bbit_ignore, bbit_show, last_rdata, first_time, rdata,
                 prev_rdata, iter, out_lines, out_header, out_dump>>

\* the loop that sets every boundary_bit_* entry to NULL
ClearTables ==
  /\ pc = "clear_tables"
  /\ boundary_bit_type' = NullTable
  /\ boundary_bit_fullname' = NullTable
  /\ boundary_bit_pin' = NullTable
  /\ pc' = "parse_bsdl"
  /\ UNCHANGED <<xdc, bsdl, sensitivity, pin_names, signal_names,
                 boundary_bit_count, part_name, line, file_pos, bbit_names,
                 bbit_ignore, bbit_show, last_rdata, first_time, rdata,
                 prev_rdata, iter, out_lines, out_header, out_dump>>

(***************************************************************************)
(* parse_bsdl()                                                            *)
(***************************************************************************)
\* the loop over bit_name that leaves bit_pin after the last '_'
RECURSIVE PinScan(_, _, _)
PinScan(bit_name, i, start) ==
  IF i > Len(bit_name)
  THEN SubSeq(bit_name, start, Len(bit_name))
  ELSE PinScan(bit_name, i + 1, IF bit_name[i] = "_" THEN i + 1 ELSE start)

\* variant: bit_pin left after the first '_' instead of the last
PinOf_FirstUnderscore(bit_name) ==
  LET us == {k \in 1..Len(bit_name) : bit_name[k] = "_"}
  IN  IF us = {}
      THEN bit_name
      ELSE SubSeq(bit_name, (CHOOSE m \in us : \A x \in us : m <= x) + 1, Len(bit_name))

PinOf(bit_name) == PinScan(bit_name, 1, 1)

\* variant: the lower bound of the guard written > instead of >=
InRange_Positive(bit_number) == bit_number > 0 /\ bit_number < MAX_BOUNDARY_BITS

\* the guard before the three strdup() stores
InRange(bit_number) == bit_number >= 0 /\ bit_number < MAX_BOUNDARY_BITS

ParseBsdlLine(l) ==
  /\ pc = "parse_bsdl"
  /\ bsdl
  /\ file_pos < MaxBsdlLines
  /\ file_pos' = file_pos + 1
  /\ line' = l
  /\ IF l.kind = "header"
     THEN /\ part_name' = STR_PART
          /\ boundary_bit_count' = l.count
     ELSE UNCHANGED <<part_name, boundary_bit_count>>
  /\ IF l.kind = "bit" /\ InRange(l.bit_number)
     THEN /\ boundary_bit_type' =
               [boundary_bit_type EXCEPT ![l.bit_number] = Ptr(l.bit_type)]
          /\ boundary_bit_fullname' =
               [boundary_bit_fullname EXCEPT ![l.bit_number] = Ptr(l.bit_name)]
          /\ boundary_bit_pin' =
               [boundary_bit_pin EXCEPT ![l.bit_number] = Ptr(PinOf(l.bit_name))]
     ELSE UNCHANGED <<boundary_bit_type, boundary_bit_fullname, boundary_bit_pin>>
  /\ UNCHANGED <<pc, xdc, bsdl, sensitivity, pin_names, signal_names,
                 bbit_names, bbit_ignore, bbit_show, last_rdata, first_time,
                 rdata, prev_rdata, iter, out_lines, out_header, out_dump>>

\* fgets() reads nothing: line[0] stays 0, the loop ends, fclose()
ParseBsdlEof ==
  /\ pc = "parse_bsdl"
  /\ bsdl
  /\ line' = NoLine
  /\ file_pos' = 0
  /\ pc' = "resolve"
  /\ UNCHANGED <<xdc, bsdl, sensitivity, pin_names, signal_names,
                 boundary_bit_type, boundary_bit_fullname, boundary_bit_pin,
                 boundary_bit_count, part_name, bbit_names, bbit_ignore,
                 bbit_show, last_rdata, first_time, rdata, prev_rdata, iter,
                 out_lines, out_header, out_dump>>

\* bsdl == NULL: only a warning is printed
NoBsdl ==
  /\ pc = "parse_bsdl"
  /\ ~bsdl
  /\ pc' = "resolve"
  /\ UNCHANGED <<xdc, bsdl, sensitivity, pin_names, signal_names,
                 boundary_bit_type, boundary_bit_fullname, boundary_bit_pin,
                 boundary_bit_count, part_name, line, file_pos, bbit_names,
                 bbit_ignore, bbit_show, last_rdata, first_time, rdata,
                 prev_rdata, iter, out_lines, out_header, out_dump>>

(***************************************************************************)
(* The resolver loop of xilinx_boundaryscan ("Map JTAG bits to pins")      *)
(***************************************************************************)
\* for(j=0;j<pin_count;j++) if (!strcmp(pin_names[j],pin)) s=signal_names[j];
RECURSIVE ScanPins(_, _, _)
ScanPins(j, s, pin) ==
  IF j > Len(pin_names)
  THEN s
  ELSE ScanPins(j + 1, IF pin_names[j] = pin THEN signal_names[j] ELSE s, pin)

\* variant: the scan stops at the first matching record
ResolveSignal_FirstMatch(pin) ==
  LET m == {j \in 1..Len(pin_names) : pin_names[j] = pin}
  IN  IF m = {}
      THEN STR_UNKNOWN
      ELSE signal_names[CHOOSE j \in m : \A x \in m : j <= x]

ResolveSignal(pin) == ScanPins(1, STR_UNKNOWN, pin)

\* variant: the sensitivity list can only add to the default ignore
IgnoreFlag_DefaultKept(s) ==
  (s = STR_CLK_IN) \/ (sensitivity # NULL /\ ~StrCaseStr(Deref(sensitivity), s))

\* bbit_ignore[i] for resolved signal s
IgnoreFlag(s) ==
  LET byDefault == (s = STR_CLK_IN)
  IN  IF sensitivity # NULL
      THEN ~StrCaseStr(Deref(sensitivity), s)
      ELSE byDefault

\* bbit_show[i] for a bit of the given type
ShowFlag(type) == (type = STR_INPUT)

\* The loop dereferences boundary_bit_pin[i] and boundary_bit_type[i] for
\* every i below boundary_bit_count: a NULL entry, or an index beyond the
\* arrays, is undefined behaviour.
ResolverUB ==
  \E i \in 0..(boundary_bit_count - 1) :
    IF i >= MAX_BOUNDARY_BITS
    THEN TRUE
    ELSE boundary_bit_type[i] = NULL \/ boundary_bit_pin[i] = NULL

Resolve ==
  /\ pc = "resolve"
  /\ ~ResolverUB
  /\ bbit_names' = [i \in 0..(boundary_bit_count - 1) |->
                      ResolveSignal(Deref(boundary_bit_pin[i]))]
  /\ bbit_ignore' = [i \in 0..(boundary_bit_count - 1) |->
                      IgnoreFlag(ResolveSignal(Deref(boundary_bit_pin[i])))]
  /\ bbit_show' = [i \in 0..(boundary_bit_count - 1) |->
                      ShowFlag(Deref(boundary_bit_type[i]))]
  /\ pc' = "monitor"
  /\ UNCHANGED <<xdc, bsdl, sensitivity, pin_names, signal_names,
                 boundary_bit_type, boundary_bit_fullname, boundary_bit_pin,
                 boundary_bit_count, part_name, line, file_pos, last_rdata,
                 first_time, rdata, prev_rdata, iter, out_lines, out_header,
                 out_dump>>

\* Undefined behaviour in the resolver loop: the process is killed by the
\* invalid access ("crashed"), or it goes on in a state the program text
\* does not determine ("undefined"); neither is followed further.
ResolveUndefined ==
  /\ pc = "resolve"
  /\ ResolverUB
  /\ pc' \in {"crashed", "undefined"}
  /\ UNCHANGED <<xdc, bsdl, sensitivity, pin_names, signal_names,
                 boundary_bit_type, boundary_bit_fullname, boundary_bit_pin,
                 boundary_bit_count, part_name, line, file_pos, bbit_names,
                 bbit_ignore, bbit_show, last_rdata, first_time, rdata,
                 prev_rdata, iter, out_lines, out_header, out_dump>>

(***************************************************************************)
(* The monitor loop                                                        *)
(***************************************************************************)
\* (buf[(i)>>3]>>((i)&7))&1
GetBit(buf, i) == (buf[(i \div 8) + 1] \div (2 ^ (i % 8))) % 2

\* variant: the ignore flag is not consulted
DisplayPredicate_IgnoreDropped(i, value, last_value) ==
  /\ bbit_show[i]
  /\ (first_time \/ last_value # value)

\* variant: a bit is printed only when it changed, the first time too
DisplayPredicate_ChangeOnly(i, value, last_value) ==
  /\ bbit_show[i]
  /\ last_value # value
  /\ ((first_time /\ sensitivity = NULL) \/ ~bbit_ignore[i])

\* the three nested conditions guarding the per-bit printf
DisplayPredicate(i, value, last_value) ==
  /\ bbit_show[i]
  /\ (first_time \/ last_value # value)
  /\ ((first_time /\ sensitivity = NULL) \/ ~bbit_ignore[i])

\* the per-bit printf
ReportLine(i, value) ==
  [bit |-> i,
   fullname |-> Deref(boundary_bit_fullname[i]),
   pin |-> Deref(boundary_bit_pin[i]),
   signal |-> bbit_names[i],
   value |-> value]

\* for(int i=0;i<boundary_bit_count;i++) { ... }
RECURSIVE ReportLoop(_, _, _, _)
ReportLoop(i, acc, capture, old) ==
  IF i >= boundary_bit_count
  THEN acc
  ELSE LET value == GetBit(capture, i)
           last_value == GetBit(old, i)
       IN  ReportLoop(i + 1,
                      IF DisplayPredicate(i, value, last_value)
                      THEN Append(acc, ReportLine(i, value))
                      ELSE acc,
                      capture, old)

\* variant: raw mode chosen when no bit count was declared
RawMode_CountZero == boundary_bit_count = 0

\* if (!bsdl) dump_bytes(...)
RawMode == ~bsdl

\* variant: the copy is left out
CopySnapshot_Stale(capture, old) == old

\* bcopy(rdata,last_rdata,1024): the new content of last_rdata
CopySnapshot(capture, old) == capture

\* first_time=0
FirstTimeAfter == FALSE

\* One pass of the do-while body.  capture is what write_pattern() returns;
\* garbage is what a read of last_rdata yields while it is indeterminate.
MonitorIteration(capture, garbage) ==
  /\ pc = "monitor"
  /\ rdata' = capture
  /\ LET old == IF last_rdata = Indeterminate THEN garbage ELSE last_rdata
     IN  /\ IF RawMode
            THEN /\ out_dump' = TRUE
                 /\ out_lines' = <<>>
                 /\ out_header' = FALSE
            ELSE /\ out_dump' = FALSE
                 /\ out_lines' = ReportLoop(0, <<>>, capture, old)
                 /\ out_header' = (Len(ReportLoop(0, <<>>, capture, old)) > 0)
         /\ prev_rdata' = IF iter = 0 THEN old ELSE rdata
  /\ last_rdata' = CopySnapshot(capture, last_rdata)
  /\ first_time' = FirstTimeAfter
  /\ iter' = IF iter >= 1 THEN 2 ELSE 1
  /\ UNCHANGED <<pc, xdc, bsdl, sensitivity, pin_names, signal_names,
                 boundary_bit_type, boundary_bit_fullname, boundary_bit_pin,
                 boundary_bit_count, part_name, line, file_pos, bbit_names,
                 bbit_ignore, bbit_show>>

Next ==
  \/ \E l \in XdcLineInputs : ParseXdcLine(l)
  \/ ParseXdcEof
  \/ NoXdc
  \/ ClearTables
  \/ \E l \in BsdlLineInputs : ParseBsdlLine(l)
  \/ ParseBsdlEof
  \/ NoBsdl
  \/ Resolve
  \/ ResolveUndefined
  \/ \E capture \in Snapshots :
       \E garbage \in (IF last_rdata = Indeterminate THEN Snapshots ELSE {last_rdata}) :
         MonitorIteration(capture, garbage)

Spec == Init /\ [][Next]_vars

(***************************************************************************)
(* Vocabulary of the properties                                            *)
(***************************************************************************)
\* indices of the per-bit lines printed by the latest iteration
Reported == {out_lines[k].bit : k \in 1..Len(out_lines)}

\* the resolver has completed and the monitor loop is running
Monitoring == pc = "monitor"

\* at least one iteration of the monitor loop has completed
IterationDone == pc = "monitor" /\ iter >= 1

BitIndices == 0..(boundary_bit_count - 1)

MaxOf(S) == CHOOSE m \in S : \A x \in S : x <= m

\* positions of the pin records whose pin_name equals pin
Matches(pin) == {j \in 1..Len(pin_names) : pin_names[j] = pin}

\* case folding of a whole string
Fold(s) == [k \in 1..Len(s) |-> ToLower(s[k])]

\* needle occurs in hay as a case-insensitive substring
OccursIn(needle, hay) ==
  \E a \in 0..Len(hay) :
    /\ a + Len(needle) <= Len(hay)
    /\ Fold(SubSeq(hay, a + 1, a + Len(needle))) = Fold(needle)

\* the part of name after its last underscore, the whole name without one
AfterLastUnderscore(name) ==
  LET us == {k \in 1..Len(name) : name[k] = "_"}
  IN  IF us = {} THEN name ELSE SubSeq(name, MaxOf(us) + 1, Len(name))

\* no header statement was parsed
HeaderAbsent == part_name = <<>>

(***************************************************************************)
(* C1: in every completed monitor iteration with a layout file loaded, a   *)
(* per-bit line is printed for bit i exactly when show[i] holds, and (it   *)
(* was the first iteration with no sensitivity string, or ignore[i] is     *)
(* false), and (it was the first iteration, or bit i of the capture        *)
(* differs from bit i of the previous capture); each bit at most once.     *)
(***************************************************************************)
C1_DisplayPredicate ==
  (IterationDone /\ bsdl) =>
    /\ \A i \in BitIndices :
         (i \in Reported) <=>
           /\ bbit_show[i]
           /\ ((iter = 1 /\ sensitivity = NULL) \/ ~bbit_ignore[i])
           /\ (iter = 1 \/ GetBit(rdata, i) # GetBit(prev_rdata, i))
    /\ Reported \subseteq BitIndices
    /\ Len(out_lines) = Cardinality(Reported)

\* a later iteration that prints one changed bit and holds back another
\* shown, non-ignored bit that did not change
C1_Witness ==
  /\ IterationDone /\ bsdl /\ iter = 2
  /\ \E i, j \in BitIndices :
       /\ i \in Reported
       /\ j \notin Reported /\ bbit_show[j] /\ ~bbit_ignore[j]

(***************************************************************************)
(* C2: after the first capture, every bit with show true and (no           *)
(* sensitivity string, or ignore false) has been reported, whatever the    *)
(* previous snapshot held.                                                 *)
(***************************************************************************)
C2_FirstCaptureReportsAll ==
  (IterationDone /\ bsdl /\ iter = 1) =>
    \A i \in BitIndices :
      (bbit_show[i] /\ (sensitivity = NULL \/ ~bbit_ignore[i])) => i \in Reported

\* first capture equal, bit for bit, to what the snapshot buffer held
C2_Witness ==
  /\ IterationDone /\ bsdl /\ iter = 1
  /\ rdata = prev_rdata
  /\ \E i \in BitIndices : bbit_show[i] /\ i \in Reported

(***************************************************************************)
(* C3: an iteration after the first whose capture is identical to the      *)
(* capture of the iteration before it prints no per-bit line and no        *)
(* elapsed-time header.                                                    *)
(***************************************************************************)
C3_IdenticalCaptureSilent ==
  (IterationDone /\ iter = 2 /\ rdata = prev_rdata) =>
    (out_lines = <<>> /\ ~out_header)

\* identical consecutive captures with a bit that a change would report
C3_Witness ==
  /\ IterationDone /\ bsdl /\ iter = 2 /\ rdata = prev_rdata
  /\ \E i \in BitIndices : bbit_show[i] /\ ~bbit_ignore[i]

(***************************************************************************)
(* C4: the resolved signal of bit i is the signal_name of the pin record   *)
(* with the highest file position whose pin_name equals the bit's pin,     *)
(* and "<unknown>" when no record matches.                                 *)
(***************************************************************************)
C4_LastMatchWins ==
  Monitoring =>
    \A i \in BitIndices :
      LET m == Matches(Deref(boundary_bit_pin[i]))
      IN  bbit_names[i] = IF m = {} THEN STR_UNKNOWN ELSE signal_names[MaxOf(m)]

\* two records for the pin of one bit, naming different signals
C4_Witness ==
  /\ Monitoring
  /\ \E i \in BitIndices :
       \E j1, j2 \in Matches(Deref(boundary_bit_pin[i])) :
         /\ j1 < j2
         /\ signal_names[j1] # signal_names[j2]
         /\ bbit_names[i] = signal_names[j2]

(***************************************************************************)
(* C5: without a sensitivity string ignore[i] is true exactly when the     *)
(* resolved signal is "CLK_IN"; with one, ignore[i] is false exactly when  *)
(* the resolved signal occurs in the sensitivity string as a               *)
(* case-insensitive substring, whatever the default would have been.       *)
(***************************************************************************)
C5_IgnoreFlag ==
  Monitoring =>
    \A i \in BitIndices :
      IF sensitivity = NULL
      THEN bbit_ignore[i] <=> (bbit_names[i] = STR_CLK_IN)
      ELSE bbit_ignore[i] <=> ~OccursIn(bbit_names[i], Deref(sensitivity))

\* a CLK_IN bit made non-ignored by a sensitivity string holding "clk_in",
\* beside a bit whose signal is not listed
C5_Witness ==
  /\ Monitoring
  /\ sensitivity # NULL
  /\ \E i, j \in BitIndices :
       /\ bbit_names[i] = STR_CLK_IN /\ ~bbit_ignore[i]
       /\ bbit_names[j] # STR_CLK_IN /\ bbit_ignore[j]

(***************************************************************************)
(* C6 as stated: with a sensitivity string, ignore[i] is false when the    *)
(* resolved signal contains the sensitivity string as a case-insensitive   *)
(* substring and true when it does not ("CLK" un-ignores "sys_clk").       *)
(***************************************************************************)
C6_SignalContainsSensitivity ==
  (Monitoring /\ sensitivity # NULL) =>
    \A i \in BitIndices :
      bbit_ignore[i] <=> ~OccursIn(Deref(sensitivity), bbit_names[i])

STR_DATA0 == <<"D","A","T","A","0">>

(***************************************************************************)
(* C6 as amended: the containment runs the other way.  ignore[i] is false  *)
(* when the resolved signal occurs inside the sensitivity string and true  *)
(* when it does not; with sensitivity string "CLK" both "sys_clk" and      *)
(* "DATA0" are ignored, and "sys_clk" is un-ignored by a sensitivity       *)
(* string that lists it.                                                   *)
(***************************************************************************)
C6_SensitivityContainsSignal ==
  /\ (Monitoring /\ sensitivity # NULL) =>
       \A i \in BitIndices :
         /\ OccursIn(bbit_names[i], Deref(sensitivity)) => ~bbit_ignore[i]
         /\ ~OccursIn(bbit_names[i], Deref(sensitivity)) => bbit_ignore[i]
         /\ (sensitivity = Ptr(STR_CLK) /\ bbit_names[i] = STR_sys_clk) => bbit_ignore[i]
  /\ (pc = "resolve" /\ sensitivity = Ptr(STR_CLK)) =>
       (IgnoreFlag(STR_sys_clk) /\ IgnoreFlag(STR_DATA0))
  /\ (pc = "resolve" /\ sensitivity = Ptr(STR_clk_in_sys_clk)) =>
       ~IgnoreFlag(STR_sys_clk)

\* sensitivity "CLK" and a bit resolved to "sys_clk", which stays ignored
C6_Witness ==
  /\ Monitoring
  /\ sensitivity = Ptr(STR_CLK)
  /\ \E i \in BitIndices : bbit_names[i] = STR_sys_clk /\ bbit_ignore[i]

(***************************************************************************)
(* C7: once both files are parsed the resolver build completes without     *)
(* error and holds exactly boundary_bit_count entries, indexed from 0;     *)
(* an index with no stored BoundaryBit is resolved to "<unknown>", has     *)
(* show false and is never reported.                                       *)
(***************************************************************************)
C7_ResolverAlwaysCompletes ==
  (pc \notin {"parse_xdc", "clear_tables", "parse_bsdl", "resolve"}) =>
    /\ pc = "monitor"
    /\ DOMAIN bbit_names = BitIndices
    /\ DOMAIN bbit_show = BitIndices
    /\ DOMAIN bbit_ignore = BitIndices
    /\ \A i \in BitIndices :
         (i >= MAX_BOUNDARY_BITS \/ boundary_bit_fullname[i] = NULL) =>
           (bbit_names[i] = STR_UNKNOWN /\ ~bbit_show[i] /\ i \notin Reported)

(***************************************************************************)
(* C8: a parsed bit-definition record with index k is stored at k (name,   *)
(* type, derived pin) when 0 <= k < MAX_BOUNDARY_BITS, leaving every other *)
(* index as it was; otherwise no table entry changes and parsing goes on   *)
(* with the next line; what the resolver later holds is indexed below the  *)
(* capacity only.                                                          *)
(***************************************************************************)
C8_StoreInRangeOnly ==
  /\ [][(pc = "parse_bsdl" /\ file_pos' = file_pos + 1 /\ line'.kind = "bit") =>
          LET k == line'.bit_number
          IN  /\ pc' = "parse_bsdl"
              /\ boundary_bit_count' = boundary_bit_count
              /\ \A j \in 0..(MAX_BOUNDARY_BITS - 1) :
                   IF j = k
                   THEN /\ boundary_bit_fullname'[j] = Ptr(line'.bit_name)
                        /\ boundary_bit_type'[j] = Ptr(line'.bit_type)
                        /\ boundary_bit_pin'[j] =
                             Ptr(AfterLastUnderscore(line'.bit_name))
                   ELSE /\ boundary_bit_fullname'[j] = boundary_bit_fullname[j]
                        /\ boundary_bit_type'[j] = boundary_bit_type[j]
                        /\ boundary_bit_pin'[j] = boundary_bit_pin[j]
              /\ DOMAIN boundary_bit_fullname' = 0..(MAX_BOUNDARY_BITS - 1)
       ]_vars
  /\ [](DOMAIN bbit_names \subseteq 0..(MAX_BOUNDARY_BITS - 1))

\* a record with index MAX_BOUNDARY_BITS was just read while another record
\* is stored
C8_Witness ==
  /\ pc = "parse_bsdl"
  /\ line.kind = "bit"
  /\ line.bit_number = MAX_BOUNDARY_BITS
  /\ \E j \in 0..(MAX_BOUNDARY_BITS - 1) : boundary_bit_fullname[j] # NULL

(***************************************************************************)
(* C9 as stated: when no header statement was parsed (no layout file, or   *)
(* a layout file without one) every iteration prints the raw dump and no   *)
(* per-bit line.                                                           *)
(***************************************************************************)
C9_HeaderAbsentRawDump ==
  (IterationDone /\ HeaderAbsent) => (out_dump /\ out_lines = <<>>)

(***************************************************************************)
(* C9 as amended: the raw dump is tied to the layout file, not to its      *)
(* header.  Without a layout file every iteration prints the raw dump and  *)
(* no per-bit line; with a layout file that holds no header statement      *)
(* every iteration prints neither a raw dump nor a per-bit line; in both   *)
(* cases the monitor runs (the resolver does not fail).                    *)
(***************************************************************************)
C9_RawDumpIffNoLayoutFile ==
  /\ (IterationDone /\ ~bsdl) => (out_dump /\ out_lines = <<>> /\ ~out_header)
  /\ (IterationDone /\ bsdl /\ HeaderAbsent) =>
       (~out_dump /\ out_lines = <<>> /\ ~out_header)
  /\ HeaderAbsent => pc \notin {"crashed", "undefined"}

\* a supplied layout file with bit records and no header: nothing is printed
C9_Witness ==
  /\ IterationDone /\ bsdl /\ HeaderAbsent
  /\ \E j \in 0..(MAX_BOUNDARY_BITS - 1) : boundary_bit_fullname[j] # NULL
  /\ ~out_dump

(***************************************************************************)
(* C10: for every stored layout bit the pin is the part of the full name   *)
(* after its last underscore (the whole name without one); once resolved,  *)
(* the bit carries the signal mapped to that pin and show is true exactly  *)
(* when its type is "input".  "U1_DATA_PIN_A3" of type "input" with the    *)
(* single mapping A3 -> "DATA_BUS[3]" gives pin "A3", signal "DATA_BUS[3]",*)
(* show true and, without a sensitivity string, ignore false.              *)
(***************************************************************************)
C10_EndToEndJoin ==
  /\ \A i \in 0..(MAX_BOUNDARY_BITS - 1) :
       boundary_bit_fullname[i] # NULL =>
         /\ boundary_bit_pin[i] # NULL
         /\ Deref(boundary_bit_pin[i]) =
              AfterLastUnderscore(Deref(boundary_bit_fullname[i]))
         /\ Deref(boundary_bit_fullname[i]) = STR_RESETN =>
              Deref(boundary_bit_pin[i]) = STR_RESETN
         /\ Deref(boundary_bit_fullname[i]) = STR_U1_DATA_PIN_A3 =>
              Deref(boundary_bit_pin[i]) = STR_A3
  /\ Monitoring =>
       \A i \in BitIndices :
         LET pin == AfterLastUnderscore(Deref(boundary_bit_fullname[i]))
         IN  /\ Matches(pin) # {} => bbit_names[i] \in {signal_names[j] : j \in Matches(pin)}
             /\ bbit_show[i] <=> (Deref(boundary_bit_type[i]) = STR_INPUT)
             /\ ( /\ Deref(boundary_bit_fullname[i]) = STR_U1_DATA_PIN_A3
                  /\ Deref(boundary_bit_type[i]) = STR_INPUT
                  /\ pin_names = <<STR_A3>>
                  /\ signal_names = <<STR_DATA_BUS_3>> ) =>
                  /\ bbit_names[i] = STR_DATA_BUS_3
                  /\ bbit_show[i]
                  /\ sensitivity = NULL => ~bbit_ignore[i]

\* the end-to-end example, resolved
C10_Witness ==
  /\ Monitoring
  /\ sensitivity = NULL
  /\ pin_names = <<STR_A3>>
  /\ signal_names = <<STR_DATA_BUS_3>>
  /\ \E i \in BitIndices :
       /\ Deref(boundary_bit_fullname[i]) = STR_U1_DATA_PIN_A3
       /\ Deref(boundary_bit_pin[i]) = STR_A3
       /\ bbit_names[i] = STR_DATA_BUS_3
       /\ bbit_show[i]
       /\ ~bbit_ignore[i]

====
